---------------------------- MODULE Spec2Model ----------------------------
(***************************************************************************)
(* A model of the strategy-execution engine of the crypto trading bot:     *)
(* backend/trading_engine.py (TradingEngine: start, stop, the worker       *)
(* _trading_loop, _execute_buy, _execute_sell, get_strategy_status and     *)
(* the strategy registry), the callers of it in backend/api_routes.py,     *)
(* generate_signals of backend/strategies/supertrend_strategy.py and of    *)
(* backend/strategies/macd_strategy.py, calculate_supertrend of the        *)
(* Supertrend strategy and of backend/utils/indicators.py, and the         *)
(* parameter adjustment _check_optimization of the Supertrend strategy.    *)
(*                                                                         *)
(* Collaborators (the Alpaca broker client, the market-data table, the     *)
(* persistence session, a strategy object's get_signal) are modelled by    *)
(* the outcomes their calls can have: a value or a raised exception.       *)
(* Money and percentages are integers; a quantity is an integer number of  *)
(* units of 10^-QtyDecimals coins, the precision round() keeps.            *)
(***************************************************************************)
EXTENDS Integers, Sequences, FiniteSets, TLC

(* ------------------------------ bounds --------------------------------- *)

\* threads that can be alive at the same time
MaxWorkers == 2
\* strategy instances the registry holds at the same time
MaxStrategies == 2
\* the largest strategy id handed out
MaxId == 2
\* request threads inside get_strategy_status at the same time
MaxRequests == 2
\* the largest atr_period of a Supertrend instance
MaxPeriod == 3
\* bars a Supertrend is computed over, and the largest price of a bar
MaxBars == 4
MaxPrice == 3
\* consecutive loop-level exceptions that are counted
MaxConsecutive == 5
\* trades a Supertrend instance tracks
MaxTrades == 6
\* decimal places a quantity keeps (the code rounds to 8)
QtyDecimals == 2

(* ------------------------- program constants --------------------------- *)

\* symbols_with_errors[symbol] >= 3: the symbol is skipped
ErrorThreshold == 3
\* "Minimum trade value $10"
MinTradeValue == 10
\* portfolio value assumed when there is no trading client
SimulatedPortfolioValue == 10000
\* Settings column defaults
DefaultMaxPositionSize == 20
DefaultRiskPerTrade == 2
DefaultStopLossPercent == 2
DefaultMaxOpenTrades == 3
\* bars calculate_volume_ratio averages over
VolumeWindow == 20
\* SupertrendStrategy.__init__: atr_period and trends_required
DefaultAtrPeriod == 10
DefaultTrendsRequired == 2
\* MACDStrategy.generate_signals: no BUY at this RSI or above, no SELL at
\* that RSI or below
Overbought == 70
Oversold == 30

Workers == 1..MaxWorkers
Requests == 1..MaxRequests
NoThread == 0

\* '/' in symbol: a crypto pair is traded around the clock, a stock only in
\* market hours
CryptoSymbols == {"BTC/USD"}
Symbols == CryptoSymbols \cup {"AAPL"}

Prices == {3, 100}
PortfolioValues == {40, 10000}

DefaultSettings ==
    [max_position_size |-> DefaultMaxPositionSize,
     risk_per_trade    |-> DefaultRiskPerTrade,
     stop_loss_percent |-> DefaultStopLossPercent,
     max_open_trades   |-> DefaultMaxOpenTrades]

VARIABLES
    \* TradingEngine fields
    running,            \* self.running
    data_client,        \* self.data_client is not None
    trading_client,     \* self.trading_client is not None (FALSE: DEGRADED)
    trading_thread,     \* self.trading_thread: the thread started last, or NoThread
    settings,           \* self.settings
    strategies,         \* self.strategies: the dict in insertion order,
                        \* a sequence of [symbol, list]
    has_ledger,         \* hasattr(self, '_simulated_positions')
    ledger,             \* self._simulated_positions: symbol -> [qty, price]
    \* the broker's account
    positions,          \* symbols with a long position at the broker
    open_orders,        \* open protective orders: [symbol, type]
    \* what the last _execute_buy/_execute_sell call did
    lastCall,
    \* the ids of the rows of the strategies table
    db_strategies,
    \* the last request to the registry: add, delete, remove or toggle
    lastOp,
    \* each request thread's place in get_strategy_status
    requests,
    \* a SupertrendStrategy instance with the data and the signal of its
    \* last generate_signals call
    supertrend,
    \* a MACDStrategy instance with the data and the signal of its last
    \* generate_signals call
    macd,
    \* the last two bars of a data frame and what the two calculate_supertrend
    \* functions have computed for them
    bands,
    \* one _trading_loop thread per worker slot
    pc,                 \* where the thread is
    symbols,            \* its snapshot list(self.strategies.keys())
    si,                 \* index of the symbol it is at
    sj,                 \* index of the strategy it is at
    detached,           \* the list it iterates was removed from the dict
    errs,               \* symbols_with_errors
    consecutive_errors,
    \* a caller of stop()
    joining,            \* the thread its join waits for, or NoThread
    stopReturned,       \* stop() has returned and start() was not called since
    \* the environment: whether the loop's own calls and get_signal can
    \* raise (faults), whether the broker and the database can fail (broker),
    \* whether lastCall is kept (observe), the prices the market shows and
    \* the values the live account can have
    env

engineVars == <<running, data_client, trading_client, trading_thread, settings>>
execVars   == <<has_ledger, ledger, positions, open_orders, lastCall>>
workerVars == <<pc, symbols, si, sj, detached, errs, consecutive_errors>>
stopVars   == <<joining, stopReturned>>
registryVars == <<strategies, db_strategies, lastOp>>
strategyVars == <<supertrend, macd, bands>>
vars == <<engineVars, registryVars, execVars, workerVars, stopVars, requests, strategyVars, env>>

(* --------------------------- exact arithmetic -------------------------- *)

RECURSIVE GCD(_, _)
GCD(a, b) == IF b = 0 THEN a ELSE GCD(b, a % b)

\* a non-negative rational n/d in lowest terms
Rat(n, d) == LET g == GCD(n, d) IN [n |-> n \div g, d |-> d \div g]
RLess(a, b) == a.n * b.d < b.n * a.d
RMulInt(a, k) == Rat(a.n * k, a.d)
RDivInt(a, k) == Rat(a.n, a.d * k)
RDiv(a, b) == Rat(a.n * b.d, a.d * b.n)

RECURSIVE Pow10(_)
Pow10(k) == IF k = 0 THEN 1 ELSE 10 * Pow10(k - 1)

\* units of 10^-QtyDecimals in one coin
QtyScale == Pow10(QtyDecimals)

\* round(quantity, 8): the nearest multiple of the unit, ties to even
RoundQty(q) ==
    LET x == q.n * QtyScale
        f == x \div q.d
        r == x % q.d
    IN  IF 2 * r < q.d THEN f
        ELSE IF 2 * r > q.d THEN f + 1
        ELSE IF f % 2 = 0 THEN f ELSE f + 1

(* ------------------------------ sizing --------------------------------- *)

\* _execute_buy's sizing: the quantity, in units, bought at latest_price
\* for a portfolio worth portfolio_value under the settings st
PositionQuantity(portfolio_value, latest_price, st) ==
    LET max_position_value == Rat(portfolio_value * st.max_position_size, 100)
        risk_amount    == Rat(portfolio_value * st.risk_per_trade, 100)
        \* latest_price - latest_price * (1 - stop_loss_percent)
        risk_per_share == Rat(latest_price * st.stop_loss_percent, 100)
        by_risk == IF risk_per_share.n > 0
                   THEN RDiv(risk_amount, risk_per_share)
                   ELSE Rat(0, 1)
        capped  == IF RLess(max_position_value, RMulInt(by_risk, latest_price))
                   THEN RDivInt(max_position_value, latest_price)
                   ELSE by_risk
        raised  == IF RLess(RMulInt(capped, latest_price), Rat(MinTradeValue, 1))
                   THEN Rat(MinTradeValue, latest_price)
                   ELSE capped
    IN  RoundQty(raised)

(* ----------------------- _execute_buy, _execute_sell ------------------- *)

\* lastCall: the operation and its symbol; held and open_before, whether a
\* position of the symbol and how many positions were open when the call
\* began; what it submitted to the broker, in order; whether it wrote the
\* ledger; the quantity, price and portfolio value it sized with; whether
\* it returned an order; what became of the trade row
NoCall ==
    [op |-> "none", symbol |-> "none", held |-> FALSE, open_before |-> 0,
     orders |-> <<>>, wrote |-> FALSE, result |-> FALSE,
     qty |-> 0, price |-> 0, pv |-> 0, recorded |-> "none"]

\* the open positions the engine counts: the broker's, or the ledger's
OpenPositions == IF trading_client THEN positions ELSE DOMAIN ledger

Order(type, side, status) == [type |-> type, side |-> side, status |-> status]

\* What the collaborators answer during one call. A live get_position
\* raises when there is no position; pos_raises is its raising although
\* there is one. stage is how far the call gets: get_account or
\* get_all_positions raises; the market-data table has no row; submit_order
\* raises; the IOC market order comes back unfilled; or it is filled.
\* sl_ok, tp_ok: the protective submissions succeed; cancel_ok: get_orders
\* and cancel_order_by_id succeed; db_ok: the trade row is committed; pv:
\* account.portfolio_value.
Answer(pos_raises, stage, sl_ok, tp_ok, cancel_ok, db_ok, pv) ==
    [pos_raises |-> pos_raises, stage |-> stage, sl_ok |-> sl_ok,
     tp_ok |-> tp_ok, cancel_ok |-> cancel_ok, db_ok |-> db_ok, pv |-> pv]

\* nothing fails and the order is filled
Smooth(pv) == Answer(FALSE, "filled", TRUE, TRUE, TRUE, TRUE, pv)

\* The answers a call of _execute_buy for the symbol can meet; an answer
\* the call never asks for is left as in Smooth.
BuyAnswers(symbol) ==
    LET any == CHOOSE pv \in env.accounts : TRUE
        raises == IF symbol \in positions THEN BOOLEAN ELSE {FALSE}
    IN  IF ~env.broker THEN {Smooth(pv) : pv \in env.accounts}
        ELSE IF ~trading_client
        THEN {Answer(FALSE, "no_data", TRUE, TRUE, TRUE, TRUE, any)}
             \cup {Answer(FALSE, "filled", TRUE, TRUE, TRUE, db, any) :
                      db \in BOOLEAN}
        ELSE {Answer(r, stage, TRUE, TRUE, TRUE, TRUE, any) :
                 r \in raises, stage \in {"account_raises", "no_data"}}
             \cup {Answer(r, "submit_raises", TRUE, TRUE, TRUE, TRUE, pv) :
                      r \in raises, pv \in env.accounts}
             \cup {Answer(r, "canceled", TRUE, TRUE, TRUE, db, pv) :
                      r \in raises, db \in BOOLEAN, pv \in env.accounts}
             \cup {Answer(r, "filled", sl, tp, TRUE, db, pv) :
                      r \in raises, sl \in BOOLEAN, tp \in BOOLEAN,
                      db \in BOOLEAN, pv \in env.accounts}

\* the answers a call of _execute_sell for the symbol can meet
SellAnswers(symbol) ==
    LET any == CHOOSE pv \in env.accounts : TRUE
    IN  IF ~env.broker \/ symbol \notin OpenPositions THEN {Smooth(any)}
        ELSE IF ~trading_client
        THEN {Answer(FALSE, "no_data", TRUE, TRUE, TRUE, TRUE, any)}
             \cup {Answer(FALSE, "filled", TRUE, TRUE, TRUE, db, any) :
                      db \in BOOLEAN}
        ELSE {Answer(TRUE, "filled", TRUE, TRUE, TRUE, TRUE, any)}
             \cup {Answer(FALSE, stage, TRUE, TRUE, TRUE, TRUE, any) :
                      stage \in {"no_data", "submit_raises"}}
             \cup {Answer(FALSE, stage, TRUE, TRUE, c, db, any) :
                      stage \in {"canceled", "filled"}, c \in BOOLEAN,
                      db \in BOOLEAN}

\* the call is written down only where the calls are observed
Observed(call) == IF env.observe THEN call ELSE NoCall

\* the state a call leaves, its record and what it returns
Outcome(hl, lg, ps, oo, call, result) ==
    [has_ledger |-> hl, ledger |-> lg, positions |-> ps, open_orders |-> oo,
     call |-> Observed(call), result |-> result]

Recorded(a) == IF a.db_ok THEN "committed" ELSE "rolled_back"

\* protective orders submitted whatever became of the primary order
ProtectiveOrdersAnyStatus(status, a) ==
    <<Order("stop", "sell", IF a.sl_ok THEN "accepted" ELSE "raised"),
      Order("limit", "sell", IF a.tp_ok THEN "accepted" ELSE "raised")>>

\* "Place stop loss and take profit orders if the main order is filled":
\* the submissions that follow a primary order of that status
ProtectiveOrders(status, a) ==
    IF status = "filled"
    THEN <<Order("stop", "sell", IF a.sl_ok THEN "accepted" ELSE "raised"),
           Order("limit", "sell", IF a.tp_ok THEN "accepted" ELSE "raised")>>
    ELSE <<>>

\* the protective orders the broker now holds open for the symbol
Accepted(symbol, orders) ==
    {[symbol |-> symbol, type |-> orders[i].type] :
        i \in {k \in 1..Len(orders) : /\ orders[k].type \in {"stop", "limit"}
                                      /\ orders[k].status = "accepted"}}

\* self._simulated_positions[symbol] = {'qty': ..., 'avg_entry_price': ...}
LedgerWith(symbol, quantity, latest_price) ==
    [s \in DOMAIN ledger \cup {symbol} |->
        IF s = symbol THEN [qty |-> quantity, price |-> latest_price]
        ELSE ledger[s]]

\* a simulated sell that leaves the ledger as it was
LedgerKept(symbol) == ledger

\* del self._simulated_positions[symbol]
LedgerWithout(symbol) == [s \in DOMAIN ledger \ {symbol} |-> ledger[s]]

\* TradingEngine._execute_buy(symbol, strategy)
ExecuteBuy(symbol, latest_price, a) ==
    LET is_simulation == ~trading_client
        portfolio_value == IF is_simulation THEN SimulatedPortfolioValue ELSE a.pv
        quantity == PositionQuantity(portfolio_value, latest_price, settings)
        began == [op |-> "buy", symbol |-> symbol,
                  held |-> symbol \in OpenPositions,
                  open_before |-> Cardinality(OpenPositions)]
        \* a return before anything is submitted or simulated
        returned == Outcome(has_ledger, ledger, positions, open_orders,
                        began @@ [orders |-> <<>>, wrote |-> FALSE,
                                  result |-> FALSE, qty |-> 0, price |-> 0,
                                  pv |-> 0, recorded |-> "none"],
                        FALSE)
        call(orders, result, recorded) ==
            began @@ [orders |-> orders, wrote |-> is_simulation,
                      result |-> result, qty |-> quantity,
                      price |-> latest_price, pv |-> portfolio_value,
                      recorded |-> recorded]
    IN
    IF ~data_client THEN returned
    \* already long
    ELSE IF ~is_simulation /\ symbol \in positions /\ ~a.pos_raises
        THEN returned
    ELSE IF is_simulation /\ has_ledger /\ symbol \in DOMAIN ledger
        THEN returned
    ELSE IF ~is_simulation /\ a.stage = "account_raises"
        THEN returned
    \* too many open positions
    ELSE IF ~is_simulation /\ Cardinality(positions) >= settings.max_open_trades
        THEN returned
    ELSE IF is_simulation /\ has_ledger
            /\ Cardinality(DOMAIN ledger) >= settings.max_open_trades
        THEN returned
    ELSE IF a.stage = "no_data" THEN returned
    ELSE IF is_simulation THEN
        Outcome(TRUE, LedgerWith(symbol, quantity, latest_price),
                positions, open_orders,
                call(<<>>, TRUE, Recorded(a)), TRUE)
    ELSE IF a.stage = "submit_raises" THEN
        Outcome(has_ledger, ledger, positions, open_orders,
                call(<<Order("market", "buy", "raised")>>, FALSE, "none"),
                FALSE)
    ELSE
        LET status == IF a.stage = "canceled" THEN "canceled" ELSE "filled"
            orders == <<Order("market", "buy", status)>>
                          \o ProtectiveOrders(status, a)
        IN  Outcome(has_ledger, ledger,
                    IF status = "filled" THEN positions \cup {symbol}
                    ELSE positions,
                    open_orders \cup Accepted(symbol, orders),
                    call(orders, TRUE, Recorded(a)), TRUE)

\* TradingEngine._execute_sell(symbol, strategy)
ExecuteSell(symbol, latest_price, a) ==
    LET is_simulation == ~trading_client
        quantity == IF is_simulation THEN ledger[symbol].qty ELSE 0
        began == [op |-> "sell", symbol |-> symbol,
                  held |-> symbol \in OpenPositions,
                  open_before |-> Cardinality(OpenPositions)]
        returned == Outcome(has_ledger, ledger, positions, open_orders,
                        began @@ [orders |-> <<>>, wrote |-> FALSE,
                                  result |-> FALSE, qty |-> 0, price |-> 0,
                                  pv |-> 0, recorded |-> "none"],
                        FALSE)
        call(orders, result, recorded) ==
            began @@ [orders |-> orders, wrote |-> is_simulation,
                      result |-> result, qty |-> quantity,
                      price |-> latest_price, pv |-> 0, recorded |-> recorded]
        cancels == IF a.cancel_ok
                   THEN {o \in open_orders : o.symbol = symbol}
                   ELSE {}
        cancel_log == IF cancels = {} THEN <<>>
                      ELSE <<Order("cancel", "sell", "accepted")>>
    IN
    IF ~data_client THEN returned
    \* no position to sell
    ELSE IF ~is_simulation /\ (symbol \notin positions \/ a.pos_raises)
        THEN returned
    ELSE IF is_simulation /\ (~has_ledger \/ symbol \notin DOMAIN ledger)
        THEN returned
    ELSE IF a.stage = "no_data" THEN returned
    ELSE IF is_simulation THEN
        Outcome(has_ledger, LedgerWithout(symbol),
                positions, open_orders,
                call(<<>>, TRUE, Recorded(a)), TRUE)
    ELSE IF a.stage = "submit_raises" THEN
        Outcome(has_ledger, ledger, positions, open_orders,
                call(<<Order("market", "sell", "raised")>>, FALSE, "none"),
                FALSE)
    ELSE
        Outcome(has_ledger, ledger,
                IF a.stage = "canceled" THEN positions ELSE positions \ {symbol},
                open_orders \ cancels,
                call(<<Order("market", "sell",
                             IF a.stage = "canceled" THEN "canceled"
                             ELSE "filled")>> \o cancel_log,
                     TRUE, Recorded(a)),
                TRUE)

\* the engine takes the state a call leaves
Apply(out) ==
    /\ has_ledger' = out.has_ledger
    /\ ledger' = out.ledger
    /\ positions' = out.positions
    /\ open_orders' = out.open_orders
    /\ lastCall' = out.call

(* ------------------------------ registry ------------------------------- *)

Keys == [i \in 1..Len(strategies) |-> strategies[i].symbol]
HasKey(symbol) == \E i \in 1..Len(strategies) : strategies[i].symbol = symbol
KeyIndex(symbol) == CHOOSE i \in 1..Len(strategies) : strategies[i].symbol = symbol
ListOf(symbol) == strategies[KeyIndex(symbol)].list

RECURSIVE CountFrom(_)
CountFrom(i) == IF i > Len(strategies) THEN 0
                ELSE Len(strategies[i].list) + CountFrom(i + 1)
StrategyCount == CountFrom(1)

RemoveAt(seq, i) == SubSeq(seq, 1, i - 1) \o SubSeq(seq, i + 1, Len(seq))

IdsOf(reg) ==
    UNION {{reg[i].list[j].id : j \in 1..Len(reg[i].list)} : i \in 1..Len(reg)}

AllIds == IdsOf(strategies)

\* TradingEngine._generate_strategy_id
GenerateStrategyId ==
    LET max_id == IF AllIds = {} THEN 0
                  ELSE CHOOSE m \in AllIds : \A k \in AllIds : k <= m
    IN  max_id + 1

\* the instances of a registry that carry the id
Carrying(reg, id) ==
    {p \in (1..Len(reg)) \X (1..MaxStrategies + 1) :
        /\ p[2] <= Len(reg[p[1]].list)
        /\ reg[p[1]].list[p[2]].id = id}

\* the first instance of a registry, in dict order then list order, whose
\* id is id
PositionIn(reg, id) ==
    CHOOSE p \in Carrying(reg, id) : \A q \in Carrying(reg, id) :
        p[1] < q[1] \/ (p[1] = q[1] /\ p[2] <= q[2])

Position(id) == PositionIn(strategies, id)

Registered(id) == id \in AllIds

\* the worker w is inside "for strategy in strategies" of that symbol
Iterating(w, symbol) ==
    /\ pc[w] = "strat"
    /\ symbols[w][si[w]] = symbol

(* -------------------------- registry operations ------------------------ *)

\* no request yet
NoOp ==
    [op |-> "none", symbol |-> "none", type |-> "none", id |-> 0,
     active |-> FALSE, result |-> "none", before |-> <<>>, repeat |-> FALSE]

\* A request as it is written down where requests are observed: what was
\* asked, what the call gave back (True, False or an exception), the
\* registry before an add, and whether the same request came just before.
Request(op, symbol, type, id, active, result, before) ==
    LET r == [op |-> op, symbol |-> symbol, type |-> type, id |-> id,
              active |-> active, result |-> result, before |-> before,
              repeat |-> FALSE]
    IN  IF env.observe
        THEN [r EXCEPT !.repeat = (lastOp = r \/ lastOp = [r EXCEPT !.repeat = TRUE])]
        ELSE NoOp

\* STRATEGY_TYPES
StrategyTypes == {"supertrend", "macd"}

\* the keyword parameters of SupertrendStrategy.__init__ and of
\* MACDStrategy.__init__
ConstructorKeywords(strategy_type) ==
    {"trading_client", "data_client", "symbol"}
    \cup (IF strategy_type = "supertrend"
          THEN {"atr_period", "multiplier", "volume_threshold", "trends_required"}
          ELSE {"ema_period", "macd_fast", "macd_slow", "macd_signal", "rsi_period"})

\* the keywords add_strategy calls the constructor with
CallKeywords == {"symbol", "trading_client", "data_client", "parameters"}

\* a constructor given a keyword it does not have raises TypeError
ConstructorRaises(strategy_type) ==
    ~(CallKeywords \subseteq ConstructorKeywords(strategy_type))

\* add_strategy from the point where the instance exists: it gets its id
\* (db_id, or a generated one when db_id is None, here 0) and is appended
\* under its symbol. The instance has no is_active attribute yet.
AppendStrategy(symbol, db_id) ==
    LET id == IF db_id /= 0 THEN db_id ELSE GenerateStrategyId
        strategy == [id |-> id, is_active |-> "unset"]
    IN  /\ StrategyCount < MaxStrategies
        /\ id <= MaxId
        /\ strategies' =
              IF HasKey(symbol)
              THEN [strategies EXCEPT ![KeyIndex(symbol)].list = Append(@, strategy)]
              ELSE Append(strategies, [symbol |-> symbol, list |-> <<strategy>>])
        /\ db_strategies' = IF db_id /= 0 THEN db_strategies \cup {db_id}
                                          ELSE db_strategies
        /\ UNCHANGED <<engineVars, execVars, workerVars, stopVars, requests, strategyVars, env>>

\* TradingEngine.add_strategy(symbol, strategy_type, parameters), with
\* parameters['db_id'] the id of the row add_strategy of api_routes.py has
\* just saved, or 0 for a call without a row: an unsupported type raises
\* ValueError and the constructor call can raise; "except Exception" then
\* returns False and the route deletes its row. Otherwise the instance is
\* appended and True is returned.
AddStrategy(symbol, strategy_type, db_id) ==
    /\ db_id \notin db_strategies
    /\ IF strategy_type \notin StrategyTypes \/ ConstructorRaises(strategy_type)
       THEN /\ lastOp' = Request("add", symbol, strategy_type, db_id, FALSE,
                                 "False", strategies)
            /\ UNCHANGED <<strategies, db_strategies, engineVars, execVars,
                           workerVars, stopVars, requests, strategyVars, env>>
       ELSE /\ AppendStrategy(symbol, db_id)
            /\ lastOp' = Request("add", symbol, strategy_type,
                                 IF db_id /= 0 THEN db_id ELSE GenerateStrategyId,
                                 FALSE, "True", strategies)

\* TradingEngine.delete_strategy(strategy_id), as delete_strategy of
\* api_routes.py calls it: the row of the strategies table stays
DeleteStrategy(id) ==
    /\ IF Registered(id)
       THEN LET p == Position(id)
                symbol == strategies[p[1]].symbol
                rest == RemoveAt(strategies[p[1]].list, p[2])
            IN  IF rest = <<>>
                THEN /\ strategies' = RemoveAt(strategies, p[1])
                     /\ detached' = [w \in Workers |->
                                        detached[w] \/ Iterating(w, symbol)]
                ELSE /\ strategies' = [strategies EXCEPT ![p[1]].list = rest]
                     /\ UNCHANGED detached
       ELSE UNCHANGED <<strategies, detached>>
    /\ lastOp' = Request("delete", "none", "none", id, FALSE,
                         IF Registered(id) THEN "True" ELSE "False", <<>>)
    /\ UNCHANGED <<db_strategies, engineVars, execVars, stopVars, requests, strategyVars, env,
                   pc, symbols, si, sj, errs, consecutive_errors>>

\* TradingEngine.remove_strategy(symbol, strategy_type): for a symbol of
\* the registry the filter evaluates eval(f"{strategy_type}Strategy") for
\* the first instance; with a key of STRATEGY_TYPES that name is not
\* defined and NameError leaves the method before anything is assigned.
RemoveStrategy(symbol, strategy_type) ==
    /\ strategy_type \in StrategyTypes
    /\ lastOp' = Request("remove", symbol, strategy_type, 0, FALSE,
                         IF HasKey(symbol) THEN "raised" ELSE "None", <<>>)
    /\ UNCHANGED <<strategies, db_strategies, engineVars, execVars,
                   workerVars, stopVars, requests, strategyVars, env>>

\* a registry with the first instance carrying the id, if there is one,
\* set active or not
\* a toggle that reaches every instance of the symbol of the instance
ToggledSymbol(reg, id, active) ==
    IF id \in IdsOf(reg)
    THEN LET p == PositionIn(reg, id)
         IN  [reg EXCEPT ![p[1]].list =
                 [j \in DOMAIN @ |->
                     [@[j] EXCEPT !.is_active = IF active THEN "on" ELSE "off"]]]
    ELSE reg

Toggled(reg, id, active) ==
    IF id \in IdsOf(reg)
    THEN LET p == PositionIn(reg, id)
         IN  [reg EXCEPT ![p[1]].list[p[2]].is_active =
                 IF active THEN "on" ELSE "off"]
    ELSE reg

\* toggle_strategy(strategy_id) of api_routes.py: 404 without a row in the
\* strategies table; otherwise the row is updated, the first instance of
\* the engine carrying the id, if any, is set, and success is answered
ToggleStrategy(id, active) ==
    /\ strategies' = IF id \in db_strategies
                      THEN Toggled(strategies, id, active)
                      ELSE strategies
    /\ lastOp' = Request("toggle", "none", "none", id, active,
                         IF id \in db_strategies THEN "True" ELSE "404", <<>>)
    /\ UNCHANGED <<db_strategies, engineVars, execVars, workerVars,
                   stopVars, requests, strategyVars, env>>

(* ------------------------------ start, stop ---------------------------- *)

\* TradingEngine.is_ready
\* an is_ready() that also asks for the order-placement client
IsReadyWithBroker == data_client /\ trading_client

IsReady == data_client

Alive(w) == pc[w] \notin {"none", "done"}

\* TradingEngine.start(): a new thread runs _trading_loop
Start ==
    /\ IsReady
    /\ \E w \in Workers :
        /\ ~Alive(w) /\ w /= joining
        /\ \A v \in Workers : (~Alive(v) /\ v /= joining) => w <= v
        /\ running' = TRUE
        /\ trading_thread' = w
        /\ pc' = [pc EXCEPT ![w] = "head"]
        /\ symbols' = [symbols EXCEPT ![w] = <<>>]
        /\ si' = [si EXCEPT ![w] = 1]
        /\ sj' = [sj EXCEPT ![w] = 1]
        /\ detached' = [detached EXCEPT ![w] = FALSE]
        /\ errs' = [errs EXCEPT ![w] = [s \in Symbols |-> 0]]
        /\ consecutive_errors' = [consecutive_errors EXCEPT ![w] = 0]
    /\ stopReturned' = FALSE
    /\ UNCHANGED <<data_client, trading_client, settings, registryVars,
                   execVars, joining, requests, strategyVars, env>>

\* start() when the engine is not ready: returns False
StartNotReady ==
    /\ ~IsReady
    /\ UNCHANGED vars

\* stop(): self.running = False, then join(timeout=5) on the last thread
StopCall ==
    /\ joining = NoThread
    /\ running' = FALSE
    /\ IF trading_thread = NoThread
       THEN /\ stopReturned' = TRUE
            /\ UNCHANGED joining
       ELSE /\ joining' = trading_thread
            /\ UNCHANGED stopReturned
    /\ UNCHANGED <<data_client, trading_client, trading_thread, settings,
                   registryVars, execVars, workerVars, requests, strategyVars, env>>

\* where a thread can stay for the five seconds of the join: in a sleep or
\* in a call that waits for the network or the database
Blocking == {"refresh", "portfolio", "strat", "sleep", "idle", "backoff"}

\* join returns because the thread ended
StopJoined ==
    /\ joining /= NoThread
    /\ ~Alive(joining)
    /\ joining' = NoThread
    /\ stopReturned' = TRUE
    /\ UNCHANGED <<engineVars, registryVars, execVars, workerVars, requests, strategyVars, env>>

\* join returns because the timeout expired
StopTimedOut ==
    /\ joining /= NoThread
    /\ pc[joining] \in Blocking
    /\ joining' = NoThread
    /\ stopReturned' = TRUE
    /\ UNCHANGED <<engineVars, registryVars, execVars, workerVars, requests, strategyVars, env>>

(* ----------------------------- _trading_loop --------------------------- *)

Goto(w, label) == pc' = [pc EXCEPT ![w] = label]

\* an exception that nothing catches ends the thread
LoopErrorExits(w) ==
    /\ consecutive_errors[w] < MaxConsecutive
    /\ consecutive_errors' = [consecutive_errors EXCEPT ![w] = @ + 1]
    /\ Goto(w, "done")

\* the pauses of "except Exception as e": 5 minutes from the fifth
\* consecutive error on, max(5, consecutive_errors * 10) seconds before
BackoffThreshold == 5
LongPause == 300
MinBackoff == 5
BackoffStep == 10

\* the escalation without the long pause
BackoffUncapped(errors) ==
    IF errors * BackoffStep > MinBackoff THEN errors * BackoffStep ELSE MinBackoff

\* the seconds time.sleep is called with after consecutive_errors += 1
Backoff(errors) ==
    IF errors >= BackoffThreshold THEN LongPause
    ELSE IF errors * BackoffStep > MinBackoff THEN errors * BackoffStep
    ELSE MinBackoff

\* an exception reaches the loop's own "except Exception"
LoopError(w) ==
    /\ consecutive_errors[w] < MaxConsecutive
    /\ consecutive_errors' = [consecutive_errors EXCEPT ![w] = @ + 1]
    /\ Goto(w, "backoff")

\* a loop head that does not look at self.running
LoopHeadForever(w) ==
    /\ pc[w] = "head"
    /\ Goto(w, "poll")
    /\ UNCHANGED <<engineVars, registryVars, execVars, stopVars, requests, strategyVars, env,
                   symbols, si, sj, detached, errs, consecutive_errors>>

\* "while self.running"
LoopHead(w) ==
    /\ pc[w] = "head"
    /\ Goto(w, IF running THEN "poll" ELSE "done")
    /\ UNCHANGED <<engineVars, registryVars, execVars, stopVars, requests, strategyVars, env,
                   symbols, si, sj, detached, errs, consecutive_errors>>

\* symbols = list(self.strategies.keys()); with none, sleep 30 s and
\* continue; otherwise the market data is refreshed when a minute has passed
LoopPoll(w) ==
    /\ pc[w] = "poll"
    /\ symbols' = [symbols EXCEPT ![w] = Keys]
    /\ IF Keys = <<>>
       THEN Goto(w, "idle")
       ELSE \E due \in BOOLEAN : Goto(w, IF due THEN "refresh" ELSE "portfolio")
    /\ UNCHANGED <<engineVars, registryVars, execVars, stopVars, requests, strategyVars, env,
                   si, sj, detached, errs, consecutive_errors>>

\* the batched refresh: every failure in it is caught at the batch
LoopRefresh(w) ==
    /\ pc[w] = "refresh"
    /\ Goto(w, "portfolio")
    /\ UNCHANGED <<engineVars, registryVars, execVars, stopVars, requests, strategyVars, env,
                   symbols, si, sj, detached, errs, consecutive_errors>>

\* the portfolio snapshot when five minutes have passed: get_session() or
\* session.close() raising is not caught here
LoopPortfolio(w) ==
    /\ pc[w] = "portfolio"
    /\ \/ /\ Goto(w, "sym")
          /\ si' = [si EXCEPT ![w] = 1]
          /\ UNCHANGED consecutive_errors
       \/ /\ env.faults
          /\ LoopError(w)
          /\ UNCHANGED si
    /\ UNCHANGED <<engineVars, registryVars, execVars, stopVars, requests, strategyVars, env,
                   symbols, sj, detached, errs>>

\* one error counter shared by all the symbols
BumpEvery(w, symbol) ==
    errs' = [errs EXCEPT ![w] = [s \in Symbols |-> @[s] + 1]]

\* symbols_with_errors[symbol] = symbols_with_errors.get(symbol, 0) + 1
Bump(w, symbol) == errs' = [errs EXCEPT ![w][symbol] = @ + 1]

\* "for symbol in symbols": the skip of a symbol with three errors, then
\* strategies = self.strategies[symbol], a KeyError when the key is gone
LoopSymbol(w) ==
    /\ pc[w] = "sym"
    /\ IF si[w] > Len(symbols[w])
       THEN /\ consecutive_errors' = [consecutive_errors EXCEPT ![w] = 0]
            /\ Goto(w, "interval")
            /\ UNCHANGED <<si, sj, detached, errs>>
       ELSE LET symbol == symbols[w][si[w]] IN
            IF errs[w][symbol] >= ErrorThreshold
            THEN /\ si' = [si EXCEPT ![w] = @ + 1]
                 /\ UNCHANGED <<pc, sj, detached, errs, consecutive_errors>>
            ELSE IF ~HasKey(symbol)
            THEN /\ Bump(w, symbol)
                 /\ si' = [si EXCEPT ![w] = @ + 1]
                 /\ UNCHANGED <<pc, sj, detached, consecutive_errors>>
            ELSE /\ Goto(w, "strat")
                 /\ sj' = [sj EXCEPT ![w] = 1]
                 /\ detached' = [detached EXCEPT ![w] = FALSE]
                 /\ UNCHANGED <<si, errs, consecutive_errors>>
    /\ UNCHANGED <<engineVars, registryVars, execVars, stopVars, requests, strategyVars, env, symbols>>

\* the list the thread iterates
Current(w) ==
    LET symbol == symbols[w][si[w]]
    IN  IF detached[w] \/ ~HasKey(symbol) THEN <<>> ELSE ListOf(symbol)

Signals == IF env.faults THEN {"HOLD", "BUY", "SELL", "raise"}
           ELSE {"HOLD", "BUY", "SELL"}

\* 'active' in get_active_strategies:
\* strategy.is_active if hasattr(strategy, 'is_active') else True
ReportedActive(strategy) == strategy.is_active # "off"

\* the next strategy of the symbol is left alone
Skip(w) ==
    /\ sj' = [sj EXCEPT ![w] = @ + 1]
    /\ UNCHANGED <<pc, si, errs, execVars>>

\* the symbol is left for the next one
NextSymbol(w) ==
    /\ Goto(w, "sym")
    /\ si' = [si EXCEPT ![w] = @ + 1]
    /\ UNCHANGED sj

\* the body of "for strategy in strategies" for one strategy
Evaluate(w, symbol, strategy) ==
    IF strategy.is_active = "unset"
    \* AttributeError outside the inner try: "except Exception as symbol_error"
    THEN /\ Bump(w, symbol)
         /\ NextSymbol(w)
         /\ UNCHANGED execVars
    ELSE IF strategy.is_active = "off"
    THEN Skip(w)
    ELSE \/ /\ symbol \notin CryptoSymbols
            \* outside trading hours
            /\ Skip(w)
         \/ \E signal \in Signals :
               CASE signal = "raise" ->
                        /\ Bump(w, symbol)
                        /\ sj' = [sj EXCEPT ![w] = @ + 1]
                        /\ UNCHANGED <<pc, si, execVars>>
                 [] signal = "HOLD" -> Skip(w)
                 [] signal \in {"BUY", "SELL"} ->
                        \E latest_price \in env.prices,
                           a \in IF signal = "BUY" THEN BuyAnswers(symbol)
                                 ELSE SellAnswers(symbol) :
                            LET out == IF signal = "BUY"
                                       THEN ExecuteBuy(symbol, latest_price, a)
                                       ELSE ExecuteSell(symbol, latest_price, a)
                            IN  /\ Apply(out)
                                /\ errs' = IF out.result
                                           THEN [errs EXCEPT ![w][symbol] = 0]
                                           ELSE errs
                                /\ sj' = [sj EXCEPT ![w] = @ + 1]
                                /\ UNCHANGED <<pc, si>>

LoopStrategy(w) ==
    /\ pc[w] = "strat"
    /\ IF sj[w] > Len(Current(w))
       THEN /\ NextSymbol(w)
            /\ UNCHANGED <<errs, execVars>>
       ELSE Evaluate(w, symbols[w][si[w]], Current(w)[sj[w]])
    /\ UNCHANGED <<engineVars, registryVars, stopVars, requests, strategyVars, env,
                   symbols, detached, consecutive_errors>>

\* sleep_time = max(1, self.settings.update_interval): reading the
\* interval can raise
LoopInterval(w) ==
    /\ pc[w] = "interval"
    /\ \/ /\ Goto(w, "sleep")
          /\ UNCHANGED consecutive_errors
       \/ /\ env.faults
          /\ LoopError(w)
    /\ UNCHANGED <<engineVars, registryVars, execVars, stopVars, requests, strategyVars, env,
                   symbols, si, sj, detached, errs>>

\* time.sleep returns: after the idle sleep, the interval or the backoff
LoopWake(w) ==
    /\ pc[w] \in {"idle", "sleep", "backoff"}
    /\ Goto(w, "head")
    /\ UNCHANGED <<engineVars, registryVars, execVars, stopVars, requests, strategyVars, env,
                   symbols, si, sj, detached, errs, consecutive_errors>>

Worker(w) ==
    \/ LoopHead(w)
    \/ LoopPoll(w)
    \/ LoopRefresh(w)
    \/ LoopPortfolio(w)
    \/ LoopSymbol(w)
    \/ LoopStrategy(w)
    \/ LoopInterval(w)
    \/ LoopWake(w)

(* ------------------------- the broker's own moves ---------------------- *)

\* a protective order triggers at the broker: it closes the position and
\* is no longer open (the other protective order stays open)
BrokerFill(symbol, type) ==
    /\ symbol \in positions
    /\ [symbol |-> symbol, type |-> type] \in open_orders
    /\ positions' = positions \ {symbol}
    /\ open_orders' = open_orders \ {[symbol |-> symbol, type |-> type]}
    /\ UNCHANGED <<engineVars, registryVars, has_ledger, ledger, lastCall,
                   workerVars, stopVars, requests, strategyVars, env>>

(* ------------------- SupertrendStrategy.generate_signals --------------- *)

\* No Supertrend instance is looked at. Of an instance the model keeps the
\* parameters, whether last_signal_time lies within signal_cooldown
\* (cooling), the data and the signal of the last call that returned, the
\* signal each thread inside generate_signals is about to return, and how
\* many BUY or SELL signals were returned within the running cooldown; the
\* multiplier in tenths; of performance_tracking the number of trades, of
\* those with a pnl, of those with a positive pnl, and the sum of their
\* pnl_percent; and which of calculate_supertrend ("regime"), the tracking
\* of a trade ("trade") and _check_optimization ("check") ran last.
NoInstance ==
    [atr_period |-> 0, trends_required |-> 0, volume_threshold |-> Rat(0, 1),
     cooling |-> FALSE, data |-> [n |-> 0, direction |-> <<>>,
                                  volume_ratio |-> Rat(1, 1)],
     signal |-> "none", inside |-> [r \in Requests |-> "none"],
     in_window |-> 0, multiplier |-> 0,
     performance_tracking |-> [trades |-> 0, completed |-> 0, wins |-> 0,
                               profit |-> 0],
     last |-> "none"]

\* The bars given to generate_signals, as far as the signal depends on
\* them: their number n, the 'direction' column calculate_supertrend
\* computes for the last "period" of them (oldest first; the first bar of
\* the data has direction 1), and the last volume over its 20-bar average
\* when there are 20 bars.
BarsOf(period, lengths, ratios) ==
    {d \in [n : lengths,
            direction : UNION {[1..k -> {1, -1}] : k \in 0..period},
            volume_ratio : ratios] :
        /\ Len(d.direction) = IF d.n < period THEN d.n ELSE period
        /\ (d.n \in 1..period => d.direction[1] = 1)
        /\ (d.n < VolumeWindow => d.volume_ratio = Rat(1, 1))}

Bars ==
    BarsOf(MaxPeriod, 0..MaxPeriod + 1 \cup {VolumeWindow, VolumeWindow + 1},
           {Rat(1, 2), Rat(1, 1), Rat(3, 2), Rat(2, 1)})

\* direction.iloc[-1 - back]
DirectionBack(data, back) == data.direction[Len(data.direction) - back]

\* the count of calculate_supertrend for the last bar, from the bar "back"
\* bars before it on: for j in range(i-1, max(0, i-atr_period), -1)
RECURSIVE SameDirection(_, _, _)
SameDirection(self, data, back) ==
    LET i == data.n - 1
        stop == IF i - self.atr_period > 0 THEN i - self.atr_period ELSE 0
    IN  IF i - back <= stop THEN 0
        ELSE IF DirectionBack(data, back) = DirectionBack(data, 0)
        THEN 1 + SameDirection(self, data, back + 1)
        ELSE 0

\* trend_strength.iloc[-1]
TrendStrength(self, data) ==
    IF data.n - 1 < self.trends_required THEN 0
    ELSE 1 + SameDirection(self, data, 1)

\* a signal with the volume confirmation left out
SignalWithoutVolume(self, current_direction, prev_direction, current_trend_strength, current_volume_ratio) ==
    IF current_trend_strength < self.trends_required THEN "HOLD"
    ELSE IF current_direction = 1 /\ prev_direction = -1 THEN "BUY"
    ELSE IF current_direction = -1 /\ prev_direction = 1 THEN "SELL"
    ELSE "HOLD"

\* "Generate signal": prev_direction is 0 for None
Signal(self, current_direction, prev_direction, current_trend_strength, current_volume_ratio) ==
    LET confirmed ==
            /\ current_trend_strength >= self.trends_required
            /\ ~RLess(current_volume_ratio, self.volume_threshold)
    IN  IF prev_direction = 0 THEN "HOLD"
        ELSE IF current_direction = 1 /\ prev_direction = -1
        THEN IF confirmed THEN "BUY" ELSE "HOLD"
        ELSE IF current_direction = -1 /\ prev_direction = 1
        THEN IF confirmed THEN "SELL" ELSE "HOLD"
        ELSE "HOLD"

\* signals['signal'] of generate_signals(data)
GeneratedSignal(self, data) ==
    IF data.n < self.atr_period THEN "HOLD"
    ELSE IF self.cooling THEN "HOLD"
    ELSE Signal(self, DirectionBack(data, 0),
                IF data.n > 1 THEN DirectionBack(data, 1) ELSE 0,
                TrendStrength(self, data), data.volume_ratio)

\* signals['confidence'] of a generate_signals(data) that returned signal
Confidence(self, data, signal) ==
    IF signal \notin {"BUY", "SELL"} THEN Rat(0, 1)
    ELSE LET c == Rat(TrendStrength(self, data) * data.volume_ratio.n
                        * self.volume_threshold.d,
                      10 * data.volume_ratio.d * self.volume_threshold.n)
         IN  IF RLess(Rat(1, 1), c) THEN Rat(1, 1) ELSE c

\* strategy.generate_signals(data): a BUY or SELL sets last_signal_time
GenerateSignals(data) ==
    /\ supertrend # NoInstance
    /\ LET signal == GeneratedSignal(supertrend, data)
       IN  supertrend' = [supertrend EXCEPT
                            !.data = data,
                            !.signal = signal,
                            !.cooling = @ \/ signal # "HOLD",
                            !.in_window = IF signal # "HOLD" /\ @ < 2
                                          THEN @ + 1 ELSE @]
    /\ UNCHANGED <<engineVars, registryVars, execVars, workerVars, stopVars,
                   requests, macd, bands, env>>

\* signal_cooldown, one hour, has passed since last_signal_time
CooldownOver ==
    /\ supertrend # NoInstance
    /\ supertrend.cooling
    /\ supertrend' = [supertrend EXCEPT !.cooling = FALSE, !.in_window = 0]
    /\ UNCHANGED <<engineVars, registryVars, execVars, workerVars, stopVars,
                   requests, macd, bands, env>>

\* generate_signals(data) on the thread r up to the cooldown check of
\* line 162: a HOLD of the first two returns is returned at once,
\* otherwise the thread goes on with the check behind it
SignalsEnter(r, data) ==
    /\ supertrend # NoInstance
    /\ supertrend.inside[r] = "none"
    /\ supertrend' =
          IF data.n < supertrend.atr_period \/ supertrend.cooling
          THEN [supertrend EXCEPT !.data = data, !.signal = "HOLD"]
          ELSE [supertrend EXCEPT
                  !.inside[r] = GeneratedSignal(supertrend, data)]
    /\ UNCHANGED <<engineVars, registryVars, execVars, workerVars, stopVars,
                   requests, macd, bands, env>>

\* the rest of generate_signals on the thread r: the signal is decided, a
\* BUY or SELL sets last_signal_time, and the signal is returned
SignalsReturn(r) ==
    /\ supertrend.inside[r] # "none"
    /\ LET signal == supertrend.inside[r]
       IN  supertrend' = [supertrend EXCEPT
                            !.inside[r] = "none",
                            !.signal = signal,
                            !.cooling = @ \/ signal # "HOLD",
                            !.in_window = IF signal # "HOLD" /\ @ < 2
                                          THEN @ + 1 ELSE @]
    /\ UNCHANGED <<engineVars, registryVars, execVars, workerVars, stopVars,
                   requests, macd, bands, env>>

(* ---------------------- MACDStrategy.generate_signals ------------------ *)

\* an RSI value; 0/0 in calculate_rsi and a window that is not full give NaN
Number(value) == [nan |-> FALSE, value |-> value]
NaN == [nan |-> TRUE, value |-> 0]

\* comparisons with NaN are False
Below(x, bound) == ~x.nan /\ x.value < bound
Above(x, bound) == ~x.nan /\ x.value > bound

\* The bars given to generate_signals, as far as the signal depends on
\* them: their number n and what calculate_macd and calculate_rsi compute
\* for the last of them, the histogram of the last two bars and the RSI.
Indicators(lengths, histograms, rsis) ==
    [n : lengths, histogram : histograms, prev_histogram : histograms,
     rsi : rsis]

\* no MACD instance is looked at
NoMACD ==
    [macd_slow |-> 0, rsi_period |-> 0,
     data |-> [n |-> 0, histogram |-> 0, prev_histogram |-> 0, rsi |-> NaN],
     signal |-> "none", fields |-> "none"]

\* no lookback at all
NoLookback(self) == 0

\* max(self.macd_slow, self.rsi_period)
Lookback(self) ==
    IF self.macd_slow > self.rsi_period THEN self.macd_slow ELSE self.rsi_period

\* a signal with the RSI confirmation left out
MACDSignalWithoutRSI(current_hist, prev_hist, current_rsi) ==
    IF current_hist > 0 /\ current_hist > prev_hist THEN "BUY"
    ELSE IF current_hist < 0 /\ current_hist < prev_hist THEN "SELL"
    ELSE "HOLD"

\* "MACD crossover and RSI confirmation"
MACDSignal(current_hist, prev_hist, current_rsi) ==
    IF current_hist > 0 /\ current_hist > prev_hist
    THEN IF Below(current_rsi, Overbought) THEN "BUY" ELSE "HOLD"
    ELSE IF current_hist < 0 /\ current_hist < prev_hist
    THEN IF Above(current_rsi, Oversold) THEN "SELL" ELSE "HOLD"
    ELSE "HOLD"

\* signals['signal'] of MACDStrategy.generate_signals(data)
MACDGeneratedSignal(self, data) ==
    IF data.n < Lookback(self) THEN "HOLD"
    ELSE MACDSignal(data.histogram, data.prev_histogram, data.rsi)

\* MACDStrategy.generate_signals(data): the indicator fields of the result
\* are None for data shorter than the lookback
MACDGenerateSignals(data) ==
    /\ macd # NoMACD
    /\ macd' = [macd EXCEPT
                  !.data = data,
                  !.signal = MACDGeneratedSignal(macd, data),
                  !.fields = IF data.n < Lookback(macd) THEN "null"
                             ELSE "values"]
    /\ UNCHANGED <<engineVars, registryVars, execVars, workerVars, stopVars,
                   requests, supertrend, bands, env>>

(* ----------------- SupertrendStrategy._check_optimization --------------- *)

\* multipliers in tenths: 5.0, the step 0.5, the 3.0 of a neutral market,
\* the floor 3.5 of a volatile and the ceiling 2.5 of a trending one
MultiplierCap == 50
MultiplierStep == 5
NeutralMultiplier == 30
VolatileMultiplier == 35
TrendingMultiplier == 25
\* trends_required is raised up to 5; 5 trades are needed to optimize
TrendsCap == 5
MinTracked == 5
\* the pnl_percent of a completed trade
PnlPercents == {-1, 1}
Regimes == {"volatile", "trending", "neutral"}

\* the dynamic adjustment at the head of calculate_supertrend
RegimeMultiplier(regime, multiplier) ==
    CASE regime = "volatile" ->
             IF multiplier > VolatileMultiplier THEN multiplier
             ELSE VolatileMultiplier
      [] regime = "trending" ->
             IF multiplier < TrendingMultiplier THEN multiplier
             ELSE TrendingMultiplier
      [] OTHER -> NeutralMultiplier

\* win_rate < 0.4 and avg_profit < 0, as execute_strategy computed them
\* from the completed trades at the last SELL
LowWinRate(tracking) == 10 * tracking.wins < 4 * tracking.completed
NegativeProfit(tracking) == tracking.profit < 0

\* an adjustment that does not stop at 5.0 and at 5
CheckOptimizationUncapped(self) ==
    LET tracking == self.performance_tracking
    IN  IF tracking.trades < MinTracked \/ tracking.completed = 0 THEN self
        ELSE [self EXCEPT
                !.multiplier = IF NegativeProfit(tracking)
                               THEN @ + MultiplierStep ELSE @,
                !.trends_required = IF LowWinRate(tracking) THEN @ + 1 ELSE @]

\* the instance after _check_optimization()
CheckOptimization(self) ==
    LET tracking == self.performance_tracking
        raised == self.multiplier + MultiplierStep
    IN  IF tracking.trades < MinTracked THEN self
        ELSE IF tracking.completed = 0 THEN self
        ELSE IF LowWinRate(tracking) \/ NegativeProfit(tracking)
        THEN [self EXCEPT
                !.multiplier = IF NegativeProfit(tracking)
                               THEN IF raised < MultiplierCap THEN raised
                                    ELSE MultiplierCap
                               ELSE @,
                !.trends_required = IF LowWinRate(tracking)
                                    THEN IF @ + 1 < TrendsCap THEN @ + 1
                                         ELSE TrendsCap
                                    ELSE @]
        ELSE self

\* calculate_supertrend on data of a regime: dynamic_params is always True
AdjustToRegime(regime) ==
    /\ supertrend # NoInstance
    /\ supertrend' = [supertrend EXCEPT
                        !.multiplier = RegimeMultiplier(regime, @),
                        !.last = "regime"]
    /\ UNCHANGED <<engineVars, registryVars, execVars, workerVars, stopVars,
                   requests, macd, bands, env>>

\* execute_strategy places an order and appends to
\* performance_tracking['trades']; a SELL has a pnl
TrackTrade(side, pnl_percent) ==
    /\ supertrend # NoInstance
    /\ supertrend.performance_tracking.trades < MaxTrades
    /\ supertrend' = [supertrend EXCEPT
          !.performance_tracking =
              IF side = "BUY" THEN [@ EXCEPT !.trades = @ + 1]
              ELSE [trades |-> @.trades + 1,
                    completed |-> @.completed + 1,
                    wins |-> @.wins + (IF pnl_percent > 0 THEN 1 ELSE 0),
                    profit |-> @.profit + pnl_percent],
          !.last = "trade"]
    /\ UNCHANGED <<engineVars, registryVars, execVars, workerVars, stopVars,
                   requests, macd, bands, env>>

\* execute_strategy places no order: self._check_optimization()
RunCheckOptimization ==
    /\ supertrend # NoInstance
    /\ supertrend' = [CheckOptimization(supertrend) EXCEPT !.last = "check"]
    /\ UNCHANGED <<engineVars, registryVars, execVars, workerVars, stopVars,
                   requests, macd, bands, env>>

(* -------------------------- calculate_supertrend ----------------------- *)

\* A bar, as far as the bands depend on it: its close and the two raw
\* bands (high + low) / 2 -+ multiplier * atr of the bar.
RawBars ==
    {b \in [close : 0..MaxPrice, lowerband : 0..MaxPrice,
            upperband : 0..MaxPrice] : b.lowerband < b.upperband}

\* no bar yet
NoBar == [close |-> 0, direction |-> 0, supertrend |-> 0,
          lowerband |-> 0, upperband |-> 0]

\* an empty data frame; "indicator" is calculate_supertrend of
\* utils/indicators.py, "strategy" is SupertrendStrategy.calculate_supertrend
NoBars ==
    [n |-> 0, indicator |-> <<NoBar, NoBar>>, strategy |-> <<NoBar, NoBar>>]

\* one turn of the loop of calculate_supertrend in utils/indicators.py:
\* the values of bar i from the bar and the values of bar i-1
IndicatorBar(i, bar, prev) ==
    IF i = 0
    THEN [close |-> bar.close, direction |-> 1, supertrend |-> 0,
          lowerband |-> bar.lowerband, upperband |-> bar.upperband]
    ELSE LET direction == IF bar.close > prev.upperband THEN 1
                          ELSE IF bar.close < prev.lowerband THEN -1
                          ELSE prev.direction
             lowerband == IF direction = 1 /\ bar.lowerband < prev.lowerband
                          THEN prev.lowerband ELSE bar.lowerband
             upperband == IF direction = -1 /\ bar.upperband > prev.upperband
                          THEN prev.upperband ELSE bar.upperband
         IN  [close |-> bar.close, direction |-> direction,
              supertrend |-> IF direction = 1 THEN lowerband ELSE upperband,
              lowerband |-> lowerband, upperband |-> upperband]

\* one turn of the loop of SupertrendStrategy.calculate_supertrend
StrategyBar(i, bar, prev) ==
    IF i = 0
    THEN [close |-> bar.close, direction |-> 1, supertrend |-> bar.upperband,
          lowerband |-> bar.lowerband, upperband |-> bar.upperband]
    ELSE IF prev.close <= prev.supertrend
    THEN [close |-> bar.close, direction |-> -1,
          supertrend |-> IF bar.lowerband > prev.supertrend
                         THEN prev.supertrend ELSE bar.lowerband,
          lowerband |-> bar.lowerband, upperband |-> bar.upperband]
    ELSE [close |-> bar.close, direction |-> 1,
          supertrend |-> IF bar.upperband < prev.supertrend
                         THEN prev.supertrend ELSE bar.upperband,
          lowerband |-> bar.lowerband, upperband |-> bar.upperband]

\* both loops take the next bar of the data frame
NextBar(bar) ==
    /\ bands.n < MaxBars
    /\ bands' = [n |-> bands.n + 1,
                 indicator |-> <<bands.indicator[2],
                                 IndicatorBar(bands.n, bar, bands.indicator[2])>>,
                 strategy |-> <<bands.strategy[2],
                                StrategyBar(bands.n, bar, bands.strategy[2])>>]
    /\ UNCHANGED <<engineVars, registryVars, execVars, workerVars, stopVars,
                   requests, supertrend, macd, env>>

\* another data frame is taken
NewFrame ==
    /\ bands.n > 0
    /\ bands' = NoBars
    /\ UNCHANGED <<engineVars, registryVars, execVars, workerVars, stopVars,
                   requests, supertrend, macd, env>>

(* ---------------------------- specifications --------------------------- *)

(* --------------------------- get_strategy_status ----------------------- *)

\* a request thread that is not inside get_strategy_status
Returned == [at |-> "returned", list |-> <<>>, k |-> 0]

\* get_strategy_status(symbol) is entered: [] for a symbol without a key,
\* otherwise the iteration over the symbol's list starts
StatusCall(r, symbol) ==
    /\ requests[r].at = "returned"
    /\ requests' = [requests EXCEPT ![r] =
                    IF HasKey(symbol)
                    THEN [at |-> "data", list |-> ListOf(symbol), k |-> 1]
                    ELSE Returned]
    /\ UNCHANGED <<engineVars, registryVars, execVars, workerVars, stopVars,
                   strategyVars, env>>

\* strategy.get_historical_data(limit=100) for the next instance of the
\* list: with data the thread goes on to generate_signals, without it to
\* the next instance
StatusData(r) ==
    /\ requests[r].at = "data"
    /\ IF requests[r].k > Len(requests[r].list)
       THEN requests' = [requests EXCEPT ![r] = Returned]
       ELSE \E empty \in BOOLEAN :
               requests' = [requests EXCEPT ![r] =
                            IF empty THEN [@ EXCEPT !.k = @ + 1]
                            ELSE [@ EXCEPT !.at = "signals"]]
    /\ UNCHANGED <<engineVars, registryVars, execVars, workerVars, stopVars,
                   strategyVars, env>>

\* strategy.generate_signals(data) returns: calculate_supertrend has set
\* market_regime and multiplier, last_signal_time was read and, for a
\* signal, written
StatusSignals(r) ==
    /\ requests[r].at = "signals"
    /\ requests' = [requests EXCEPT ![r] = [@ EXCEPT !.at = "data", !.k = @ + 1]]
    /\ UNCHANGED <<engineVars, registryVars, execVars, workerVars, stopVars,
                   strategyVars, env>>

\* the instance a request thread is evaluating, 0 for none
EvaluatedBy(r) ==
    IF requests[r].at = "signals" THEN requests[r].list[requests[r].k].id ELSE 0


\* TradingEngine.__init__ and initialize_clients: without credentials there
\* is no client ("none"); with them a data client and a trading client
\* ("live"), or no trading client because SIMULATION_MODE is set
\* ("simulation", which creates the ledger) or because TradingClient raised
\* ("data_only", which does not)
Modes == {"none", "live", "simulation", "data_only"}

Constructed(mode) ==
    /\ data_client = (mode /= "none")
    /\ trading_client = (mode = "live")
    /\ has_ledger = (mode = "simulation")
    /\ ledger = <<>>
    /\ positions = {}
    /\ open_orders = {}
    /\ lastCall = NoCall
    /\ lastOp = NoOp
    /\ requests = [r \in Requests |-> Returned]
    /\ symbols = [w \in Workers |-> <<>>]
    /\ si = [w \in Workers |-> 1]
    /\ sj = [w \in Workers |-> 1]
    /\ detached = [w \in Workers |-> FALSE]
    /\ errs = [w \in Workers |-> [s \in Symbols |-> 0]]
    /\ consecutive_errors = [w \in Workers |-> 0]
    /\ joining = NoThread
    /\ stopReturned = FALSE

\* start() was not called yet
NotStarted ==
    /\ running = FALSE
    /\ trading_thread = NoThread
    /\ pc = [w \in Workers |-> "none"]

\* start() was called once: its thread is about to test self.running
Started(w) ==
    /\ running = TRUE
    /\ trading_thread = w
    /\ pc = [v \in Workers |-> IF v = w THEN "head" ELSE "none"]

\* a registry as lines 189-193 of add_strategy store it, each instance
\* with its row in the strategies table
Stored(reg) ==
    /\ strategies = reg
    /\ db_strategies = IdsOf(reg)

\* two such registries: one strategy for each of two symbols, and two
\* strategies for one symbol
TwoSymbols ==
    <<[symbol |-> "BTC/USD", list |-> <<[id |-> 1, is_active |-> "unset"]>>],
      [symbol |-> "AAPL", list |-> <<[id |-> 2, is_active |-> "unset"]>>]>>
OneSymbol ==
    <<[symbol |-> "BTC/USD", list |-> <<[id |-> 1, is_active |-> "unset"],
                                       [id |-> 2, is_active |-> "unset"]>>]>>

\* The worker: the engine was constructed with credentials, strategies
\* were added and it was started; the default settings hold; the loop's
\* calls and get_signal can raise; strategies are toggled and stop() is
\* called while the worker runs.
Init ==
    /\ \E mode \in {"live", "simulation"} : Constructed(mode)
    /\ supertrend = NoInstance
    /\ macd = NoMACD
    /\ bands = NoBars
    /\ Started(1)
    /\ \E reg \in {TwoSymbols, OneSymbol} : Stored(reg)
    /\ settings = DefaultSettings
    /\ env = [faults |-> TRUE, broker |-> FALSE, observe |-> FALSE,
              prices |-> {100}, accounts |-> {10000}]

Next ==
    \/ StopCall
    \/ StopJoined
    \/ StopTimedOut
    \/ \E id \in 1..MaxId, active \in BOOLEAN : ToggleStrategy(id, active)
    \/ \E w \in Workers : Worker(w)

Spec == Init /\ [][Next]_vars

\* the scheduler runs a thread that can run, and a sleep ends
FairSpec == Spec /\ WF_vars(\E w \in Workers : Worker(w))

\* start() and stop(): the engine is constructed, with or without
\* credentials, one active strategy is registered and nothing fails.
InitLife ==
    /\ \E mode \in Modes : Constructed(mode)
    /\ supertrend = NoInstance
    /\ macd = NoMACD
    /\ bands = NoBars
    /\ NotStarted
    /\ Stored(<<[symbol |-> "BTC/USD",
                  list |-> <<[id |-> 1, is_active |-> "on"]>>]>>)
    /\ settings = DefaultSettings
    /\ env = [faults |-> FALSE, broker |-> FALSE, observe |-> FALSE,
              prices |-> {100}, accounts |-> {10000}]

NextLife ==
    \/ Start
    \/ StartNotReady
    \/ StopCall
    \/ StopJoined
    \/ StopTimedOut
    \/ \E w \in Workers : Worker(w)

SpecLife == InitLife /\ [][NextLife]_vars

CallBuy(symbol) ==
    /\ \E latest_price \in env.prices, a \in BuyAnswers(symbol) :
          Apply(ExecuteBuy(symbol, latest_price, a))
    /\ UNCHANGED <<engineVars, registryVars, workerVars, stopVars, requests, strategyVars, env>>

CallSell(symbol) ==
    /\ \E latest_price \in env.prices, a \in SellAnswers(symbol) :
          Apply(ExecuteSell(symbol, latest_price, a))
    /\ UNCHANGED <<engineVars, registryVars, workerVars, stopVars, requests, strategyVars, env>>

\* _execute_buy and _execute_sell, called as the loop calls them, for any
\* answer of the collaborators and any limit on the open trades
InitExec ==
    /\ \E mode \in Modes \ {"none"} : Constructed(mode)
    /\ supertrend = NoInstance
    /\ macd = NoMACD
    /\ bands = NoBars
    /\ NotStarted
    /\ Stored(<<>>)
    /\ settings \in {[DefaultSettings EXCEPT !.max_open_trades = n] :
                        n \in {0, 1, DefaultMaxOpenTrades}}
    /\ env = [faults |-> FALSE, broker |-> TRUE, observe |-> TRUE,
              prices |-> {100}, accounts |-> {10000}]

NextExec ==
    \/ \E symbol \in Symbols : CallBuy(symbol)
    \/ \E symbol \in Symbols : CallSell(symbol)
    \/ \E symbol \in Symbols, type \in {"stop", "limit"} : BrokerFill(symbol, type)

SpecExec == InitExec /\ [][NextExec]_vars

\* The position sizing of _execute_buy, for any risk settings, price and
\* account value; nothing fails and every order is filled.
SettingsRange ==
    [max_position_size : {10, DefaultMaxPositionSize},
     risk_per_trade    : {1, DefaultRiskPerTrade},
     stop_loss_percent : {0, DefaultStopLossPercent, 10},
     max_open_trades   : {DefaultMaxOpenTrades}]

InitSizing ==
    /\ \E mode \in Modes \ {"none"} : Constructed(mode)
    /\ supertrend = NoInstance
    /\ macd = NoMACD
    /\ bands = NoBars
    /\ NotStarted
    /\ Stored(<<>>)
    /\ settings \in SettingsRange
    /\ env = [faults |-> FALSE, broker |-> FALSE, observe |-> TRUE,
              prices |-> Prices, accounts |-> PortfolioValues]

NextSizing ==
    \/ \E symbol \in Symbols : CallBuy(symbol)
    \/ \E symbol \in Symbols : CallSell(symbol)

SpecSizing == InitSizing /\ [][NextSizing]_vars

\* The registry and its requests: an engine not started, with an empty
\* registry or one that holds instances; strategies are added, deleted,
\* removed and toggled, and every request is observed.
InitRegistry ==
    /\ \E mode \in Modes : Constructed(mode)
    /\ supertrend = NoInstance
    /\ macd = NoMACD
    /\ bands = NoBars
    /\ NotStarted
    /\ \E reg \in {<<>>, TwoSymbols, OneSymbol} : Stored(reg)
    /\ settings = DefaultSettings
    /\ env = [faults |-> FALSE, broker |-> FALSE, observe |-> TRUE,
              prices |-> {100}, accounts |-> {10000}]

NextRegistry ==
    \/ \E symbol \in Symbols, strategy_type \in StrategyTypes \cup {"bollinger"},
          db_id \in 0..MaxId : AddStrategy(symbol, strategy_type, db_id)
    \/ \E id \in 1..MaxId : DeleteStrategy(id)
    \/ \E symbol \in Symbols, strategy_type \in StrategyTypes :
          RemoveStrategy(symbol, strategy_type)
    \/ \E id \in 1..MaxId, active \in BOOLEAN : ToggleStrategy(id, active)

SpecRegistry == InitRegistry /\ [][NextRegistry]_vars

\* The worker and delete requests: the engine runs over a registry whose
\* strategies were all toggled active, no call of the loop raises, and
\* strategies are deleted from request threads while the worker runs.
InitDelete ==
    /\ Constructed("live")
    /\ supertrend = NoInstance
    /\ macd = NoMACD
    /\ bands = NoBars
    /\ Started(1)
    /\ \E reg \in {TwoSymbols, OneSymbol} :
          Stored(Toggled(Toggled(reg, 1, TRUE), 2, TRUE))
    /\ settings = DefaultSettings
    /\ env = [faults |-> FALSE, broker |-> FALSE, observe |-> FALSE,
              prices |-> {100}, accounts |-> {10000}]

NextDelete ==
    \/ \E id \in 1..MaxId : DeleteStrategy(id)
    \/ \E w \in Workers : Worker(w)

SpecDelete == InitDelete /\ [][NextDelete]_vars

\* The worker and status requests: the engine runs over a registry whose
\* strategies were all toggled active, and request threads call
\* get_strategy_status while the worker runs.
InitStatus ==
    /\ Constructed("live")
    /\ supertrend = NoInstance
    /\ macd = NoMACD
    /\ bands = NoBars
    /\ Started(1)
    /\ \E reg \in {TwoSymbols, OneSymbol} :
          Stored(Toggled(Toggled(reg, 1, TRUE), 2, TRUE))
    /\ settings = DefaultSettings
    /\ env = [faults |-> FALSE, broker |-> FALSE, observe |-> FALSE,
              prices |-> {100}, accounts |-> {10000}]

NextStatus ==
    \/ \E r \in Requests, symbol \in Symbols : StatusCall(r, symbol)
    \/ \E r \in Requests : StatusData(r)
    \/ \E r \in Requests : StatusSignals(r)
    \/ \E w \in Workers : Worker(w)

SpecStatus == InitStatus /\ [][NextStatus]_vars

\* generate_signals: a Supertrend instance constructed with any of the
\* parameters below, no signal given yet, is handed bars again and again.
InitSignals ==
    /\ \E mode \in {"none"} : Constructed(mode)
    /\ NotStarted
    /\ Stored(<<>>)
    /\ settings = DefaultSettings
    /\ env = [faults |-> FALSE, broker |-> FALSE, observe |-> FALSE,
              prices |-> {100}, accounts |-> {10000}]
    /\ macd = NoMACD
    /\ bands = NoBars
    /\ \E atr_period \in 2..MaxPeriod, trends_required \in {1, 2},
          volume_threshold \in {Rat(1, 1), Rat(3, 2)} :
          supertrend = [NoInstance EXCEPT
                          !.atr_period = atr_period,
                          !.trends_required = trends_required,
                          !.volume_threshold = volume_threshold]

NextSignals ==
    \/ \E data \in Bars : GenerateSignals(data)
    \/ CooldownOver

SpecSignals == InitSignals /\ [][NextSignals]_vars

\* MACDStrategy.generate_signals: an instance constructed with any of the
\* parameters below is handed bars again and again.
InitMACD ==
    /\ \E mode \in {"none"} : Constructed(mode)
    /\ NotStarted
    /\ Stored(<<>>)
    /\ settings = DefaultSettings
    /\ env = [faults |-> FALSE, broker |-> FALSE, observe |-> FALSE,
              prices |-> {100}, accounts |-> {10000}]
    /\ supertrend = NoInstance
    /\ bands = NoBars
    /\ \E macd_slow \in 2..MaxPeriod, rsi_period \in 2..MaxPeriod :
          macd = [NoMACD EXCEPT !.macd_slow = macd_slow,
                                !.rsi_period = rsi_period]

NextMACD ==
    \E data \in Indicators(0..MaxPeriod + 1, -2..2,
                           {NaN} \cup {Number(v) : v \in {Oversold, Oversold + 1,
                                                         Overbought - 1, Overbought}}) :
        MACDGenerateSignals(data)

SpecMACD == InitMACD /\ [][NextMACD]_vars

\* Both strategies on short data: a Supertrend and a MACD instance are
\* handed series from the empty one to one longer than every lookback.
InitShort ==
    /\ bands = NoBars
    /\ \E mode \in {"none"} : Constructed(mode)
    /\ NotStarted
    /\ Stored(<<>>)
    /\ settings = DefaultSettings
    /\ env = [faults |-> FALSE, broker |-> FALSE, observe |-> FALSE,
              prices |-> {100}, accounts |-> {10000}]
    /\ \E atr_period \in 2..MaxPeriod :
          supertrend = [NoInstance EXCEPT
                          !.atr_period = atr_period,
                          !.trends_required = 1,
                          !.volume_threshold = Rat(1, 1)]
    /\ \E macd_slow \in 2..MaxPeriod, rsi_period \in 2..MaxPeriod :
          macd = [NoMACD EXCEPT !.macd_slow = macd_slow,
                                !.rsi_period = rsi_period]

NextShort ==
    \/ \E data \in BarsOf(MaxPeriod, 0..MaxPeriod + 1, {Rat(1, 1)}) :
          GenerateSignals(data)
    \/ CooldownOver
    \/ \E data \in Indicators(0..MaxPeriod + 1, {-1, 1}, {Number(50)}) :
          MACDGenerateSignals(data)

SpecShort == InitShort /\ [][NextShort]_vars

\* calculate_supertrend, both of them, over data frames of up to MaxBars
\* bars.
InitBands ==
    /\ \E mode \in {"none"} : Constructed(mode)
    /\ NotStarted
    /\ Stored(<<>>)
    /\ settings = DefaultSettings
    /\ env = [faults |-> FALSE, broker |-> FALSE, observe |-> FALSE,
              prices |-> {100}, accounts |-> {10000}]
    /\ supertrend = NoInstance
    /\ macd = NoMACD
    /\ bands = NoBars

NextBands ==
    \/ \E bar \in RawBars : NextBar(bar)
    \/ NewFrame

SpecBands == InitBands /\ [][NextBands]_vars

\* generate_signals of an instance constructed with the default
\* parameters (atr_period 10, trends_required 2, volume_threshold 1.5),
\* handed 200 bars with any directions over the last ten of them and a
\* last volume of 1 or 1.5 times the average.
InitDefaults ==
    /\ \E mode \in {"none"} : Constructed(mode)
    /\ NotStarted
    /\ Stored(<<>>)
    /\ settings = DefaultSettings
    /\ env = [faults |-> FALSE, broker |-> FALSE, observe |-> FALSE,
              prices |-> {100}, accounts |-> {10000}]
    /\ macd = NoMACD
    /\ bands = NoBars
    /\ supertrend = [NoInstance EXCEPT
                      !.atr_period = DefaultAtrPeriod,
                      !.trends_required = DefaultTrendsRequired,
                      !.volume_threshold = Rat(3, 2)]

NextDefaults ==
    \E data \in BarsOf(DefaultAtrPeriod, {200}, {Rat(1, 1), Rat(3, 2)}) :
        GenerateSignals(data)

SpecDefaults == InitDefaults /\ [][NextDefaults]_vars

\* generate_signals called from threads: the same instance is evaluated by
\* the threads that get_strategy_status and the worker run on.
NextCooldown ==
    \/ \E r \in Requests, data \in Bars : SignalsEnter(r, data)
    \/ \E r \in Requests : SignalsReturn(r)
    \/ CooldownOver

SpecCooldown == InitSignals /\ [][NextCooldown]_vars

(* ------------------------------ properties ----------------------------- *)

Threads == {w \in Workers : Alive(w)}

\* the worker is at the symbol in "for symbol in symbols"
AtSymbol(w, s) ==
    /\ pc[w] = "sym"
    /\ si[w] <= Len(symbols[w])
    /\ symbols[w][si[w]] = s

\* the worker is at the symbol or iterating its strategies
Processing(w, s) ==
    /\ pc[w] \in {"sym", "strat"}
    /\ si[w] <= Len(symbols[w])
    /\ symbols[w][si[w]] = s

\* the worker has an active strategy in hand, whose signal it asks for next
Evaluating(w) ==
    /\ pc[w] = "strat"
    /\ sj[w] <= Len(Current(w))
    /\ Current(w)[sj[w]].is_active = "on"

\* C1: start() on an engine that is already running, with its worker alive,
\* starts no additional worker.
C1_StartIdempotent ==
    [][(running /\ trading_thread # NoThread /\ Alive(trading_thread))
          => Cardinality(Threads') <= Cardinality(Threads)]_vars

\* C2: stop() returns only when the worker has finished its cycle: once
\* stop() has returned no worker evaluates a strategy or submits an order.
C2_StopWaits ==
    [][stopReturned =>
          \A w \in Workers : ~(Evaluating(w) /\ sj'[w] = sj[w] + 1)]_vars

Healthy(s) ==
    /\ HasKey(s)
    /\ \A j \in 1..Len(ListOf(s)) : ListOf(s)[j].is_active = "on"

\* C4: a symbol that is skipped is not skipped for ever: while the worker
\* lives and the symbol's strategies are fit to be evaluated, its counter
\* returns to 0.
C4_SkipRecovers ==
    \A w \in Workers, s \in Symbols :
        (Alive(w) /\ errs[w][s] >= ErrorThreshold)
            ~> (~Alive(w) \/ ~Healthy(s) \/ errs[w][s] = 0)

\* C5: nothing raised inside a cycle ends the worker: a worker ends only at
\* "while self.running" with running false; an exception that reaches the
\* loop's handler leads to the backoff pause, the pause to the head of the
\* loop, and the head, while running, to another cycle.
C5_NothingFatal ==
    [][\A w \in Workers :
          /\ (Alive(w) /\ pc'[w] \in {"none", "done"})
                => (pc[w] = "head" /\ ~running)
          /\ consecutive_errors'[w] > consecutive_errors[w]
                => pc'[w] = "backoff"
          /\ (pc[w] = "backoff" /\ pc'[w] # "backoff") => pc'[w] = "head"
          /\ (pc[w] = "head" /\ running /\ pc'[w] # "head")
                => pc'[w] = "poll"]_vars

\* the worker has begun another cycle after an exception
C5_CycleAfterError ==
    \E w \in Workers :
        /\ running
        /\ pc[w] = "poll"
        /\ consecutive_errors[w] >= 2

\* the last call was a buy that submitted an order or simulated one
Bought ==
    /\ lastCall.op = "buy"
    /\ (lastCall.orders # <<>> \/ lastCall.wrote)

\* C6: the notional of a buy, quantity x price, never exceeds
\* portfolio_value x max_position_size / 100 (here: by more than the
\* rounding of the quantity, half a unit of its last decimal).
C6_PositionCap ==
    Bought =>
        2 * lastCall.qty * lastCall.price * 100
            <= 2 * lastCall.pv * settings.max_position_size * QtyScale
                   + lastCall.price * 100

C8_RecheckGate ==
    /\ (lastCall.op = "buy" /\ lastCall.held)
          => (lastCall.orders = <<>> /\ ~lastCall.wrote)
    /\ (lastCall.op = "sell" /\ ~lastCall.held)
          => (lastCall.orders = <<>> /\ ~lastCall.wrote
              /\ lastCall.recorded = "none")

\* C9: the risk of a buy, quantity x (price - stop price), never exceeds
\* portfolio_value x risk_per_trade / 100 (here: by more than the rounding
\* of the quantity); price - stop price is price x stop_loss_percent / 100.
C9_RiskPerTrade ==
    Bought =>
        2 * lastCall.qty * lastCall.price * settings.stop_loss_percent
            <= 2 * lastCall.pv * settings.risk_per_trade * QtyScale
                   + lastCall.price * settings.stop_loss_percent

\* C10: a live buy submits a stop-loss or a take-profit order only after
\* its market order was submitted and came back filled: none when the
\* order is not filled, none when the submission raises.
C10_ProtectiveAfterFill ==
    lastCall.op = "buy" =>
        LET o == lastCall.orders IN
        /\ \A i \in 1..Len(o) :
              o[i].type \in {"stop", "limit"}
                  => (i > 1 /\ o[1] = Order("market", "buy", "filled"))
        /\ (o # <<>> /\ o[1].status # "filled") => Len(o) = 1

\* a filled market buy followed by its stop-loss and its take-profit
C10_ProtectedBuy ==
    /\ lastCall.op = "buy"
    /\ Len(lastCall.orders) = 3
    /\ lastCall.orders[1] = Order("market", "buy", "filled")
    /\ lastCall.orders[2].type = "stop"
    /\ lastCall.orders[3].type = "limit"

\* C11: a live sell cancels the open protective orders of the symbol
\* first: every cancellation comes before the exit market order.
C11_CancelBeforeExit ==
    lastCall.op = "sell" =>
        LET o == lastCall.orders IN
        \A i \in 1..Len(o), j \in 1..Len(o) :
            (o[i].type = "cancel" /\ o[j].type = "market") => i < j

\* what the loop gets back from a call: whether an order was returned and
\* the status that order carries
Reported(call) ==
    [result |-> call.result,
     status |-> IF call.orders = <<>> THEN "none" ELSE call.orders[1].status]

\* C12: when the market buy is filled and the submission of the stop-loss or
\* of the take-profit fails, what _execute_buy reports to the loop differs
\* from what it reports for a filled buy with both protective orders placed.
C12_PartialFailureSurfaced ==
    (/\ lastCall.op = "buy"
     /\ Len(lastCall.orders) = 3
     /\ lastCall.orders[1].status = "filled"
     /\ \E i \in 2..3 : lastCall.orders[i].status = "raised")
        => Reported(lastCall) # [result |-> TRUE, status |-> "filled"]

\* C13: a failure to store a market-data point or a portfolio snapshot
\* does not abort the cycle: the refresh is followed by the snapshot and the
\* snapshot by the evaluation of the symbols, with no error counted.
C13_PersistenceContained ==
    [][\A w \in Workers :
          /\ (pc[w] = "refresh" /\ pc'[w] # "refresh") => pc'[w] = "portfolio"
          /\ (pc[w] = "portfolio" /\ pc'[w] # "portfolio")
                => (pc'[w] = "sym"
                    /\ consecutive_errors'[w] = consecutive_errors[w])]_vars

\* C14: without a trading client nothing is sent to the broker and the
\* broker's account is left alone; a simulated buy adds exactly one ledger
\* entry, for its symbol, and a simulated sell removes exactly the entry of
\* its symbol.
C14_DegradedLedger ==
    [][~trading_client =>
          /\ lastCall'.orders = <<>>
          /\ UNCHANGED <<positions, open_orders>>
          /\ (lastCall' # lastCall /\ lastCall'.wrote) => ledger' # ledger
          /\ ledger' # ledger =>
                LET s == lastCall'.symbol IN
                \/ /\ lastCall'.op = "buy"
                   /\ s \notin DOMAIN ledger
                   /\ DOMAIN ledger' = DOMAIN ledger \cup {s}
                   /\ \A t \in DOMAIN ledger : ledger'[t] = ledger[t]
                \/ /\ lastCall'.op = "sell"
                   /\ s \in DOMAIN ledger
                   /\ DOMAIN ledger' = DOMAIN ledger \ {s}
                   /\ \A t \in DOMAIN ledger' : ledger'[t] = ledger[t]]_vars

\* a simulated sell has removed the entry a simulated buy had added, and
\* another symbol's entry is still there
C14_SimulatedRoundTrip ==
    /\ ~trading_client
    /\ lastCall.op = "sell"
    /\ lastCall.wrote
    /\ lastCall.symbol \notin DOMAIN ledger
    /\ DOMAIN ledger # {}

\* C15: toggle_strategy(id, active=false) applied twice leaves the registry
\* as applying it once does, with exactly one instance carrying that id and
\* that instance inactive.
C15_ToggleIdempotent ==
    /\ \A id \in 1..MaxId :
          Toggled(Toggled(strategies, id, FALSE), id, FALSE)
            = Toggled(strategies, id, FALSE)
    /\ (lastOp.op = "toggle" /\ lastOp.result = "True" /\ ~lastOp.active
          /\ lastOp.repeat)
       => /\ Cardinality(Carrying(strategies, lastOp.id)) = 1
          /\ \A p \in Carrying(strategies, lastOp.id) :
                strategies[p[1]].list[p[2]].is_active = "off"

\* C17: add_strategy with a supported type creates exactly one instance,
\* appends it to the registry under its symbol and returns its id, so that
\* get_active_strategies shows it.
C17_AddCreates ==
    (lastOp.op = "add" /\ lastOp.type \in StrategyTypes)
    => LET before == lastOp.before
           at == {i \in 1..Len(before) : before[i].symbol = lastOp.symbol}
       IN  /\ lastOp.result = "True"
           /\ \E id \in 1..MaxId + 1 :
                 LET strategy == [id |-> id, is_active |-> "unset"]
                 IN  /\ lastOp.id \in {0, id}
                     /\ strategies =
                           IF at = {}
                           THEN Append(before, [symbol |-> lastOp.symbol,
                                                list |-> <<strategy>>])
                           ELSE [i \in 1..Len(before) |->
                                   IF i \in at
                                   THEN [before[i] EXCEPT !.list = Append(@, strategy)]
                                   ELSE before[i]]

C18_DeleteNeverDisturbs ==
    \A w \in Workers : \A symbol \in DOMAIN errs[w] : errs[w][symbol] = 0

\* C19: no strategy instance is evaluated by more than one thread at a
\* time: two evaluations that read or write the state of one instance
\* (last_signal_time, multiplier, market_regime) never overlap.
C19_OneEvaluationAtATime ==
    \A r1 \in Requests, r2 \in Requests :
        (r1 /= r2 /\ EvaluatedBy(r1) /= 0) => EvaluatedBy(r1) /= EvaluatedBy(r2)

\* C20: generate_signals returns BUY (SELL) only if, at the evaluated bar,
\* the direction is +1 and the previous bar's is -1 (-1 after +1), the
\* trend strength is at least trends_required and the volume ratio at
\* least volume_threshold; in every other case it returns HOLD.
C20_SignalOnlyOnConfirmedFlip ==
    supertrend.signal # "none"
    => LET data == supertrend.data
           flips(to) ==
               /\ data.n > 1
               /\ DirectionBack(data, 0) = to
               /\ DirectionBack(data, 1) = -to
               /\ TrendStrength(supertrend, data) >= supertrend.trends_required
               /\ ~RLess(data.volume_ratio, supertrend.volume_threshold)
       IN  /\ supertrend.signal \in {"BUY", "SELL", "HOLD"}
           /\ supertrend.signal = "BUY" => flips(1)
           /\ supertrend.signal = "SELL" => flips(-1)

\* a BUY was returned on a confirmed flip, and a later call in the cooldown
\* is there to return HOLD
C20_BuyReturned ==
    /\ supertrend.signal = "BUY"
    /\ supertrend.data.n >= VolumeWindow
    /\ supertrend.cooling

\* C21: after an evaluation of an instance that returns BUY or SELL, every
\* evaluation inside the cooldown returns HOLD, so that no two BUY or SELL
\* signals of the instance are returned within one cooldown.
C21_CooldownApart == supertrend.in_window <= 1

\* C22: with the default parameters, when the direction flips from -1 to +1
\* at the evaluated bar and that bar's volume ratio is at least 1.5,
\* generate_signals returns BUY.
C22_DefaultBuy ==
    LET data == supertrend.data
    IN  (/\ supertrend.signal # "none"
         /\ DirectionBack(data, 0) = 1
         /\ DirectionBack(data, 1) = -1
         /\ ~RLess(data.volume_ratio, Rat(3, 2)))
        => supertrend.signal = "BUY"

\* C23: given enough history, MACDStrategy.generate_signals returns BUY
\* exactly when the histogram is positive and greater than the previous
\* bar's and RSI < 70, SELL exactly when the histogram is negative and less
\* than the previous bar's and RSI > 30, and HOLD in every other case.
C23_MACDSignal ==
    (macd.signal # "none" /\ macd.data.n >= Lookback(macd))
    => LET data == macd.data
           rising == data.histogram > 0 /\ data.histogram > data.prev_histogram
           falling == data.histogram < 0 /\ data.histogram < data.prev_histogram
           rsi_below == ~data.rsi.nan /\ data.rsi.value < Overbought
           rsi_above == ~data.rsi.nan /\ data.rsi.value > Oversold
       IN  /\ macd.signal = "BUY" <=> (rising /\ rsi_below)
           /\ macd.signal = "SELL" <=> (falling /\ rsi_above)
           /\ macd.signal \in {"BUY", "SELL", "HOLD"}

\* a rising positive histogram at RSI 70 gave HOLD, with enough history
C23_OverboughtHeld ==
    /\ macd.signal = "HOLD"
    /\ macd.data.n >= Lookback(macd)
    /\ macd.data.histogram > 0
    /\ macd.data.histogram > macd.data.prev_histogram
    /\ macd.data.rsi = Number(Overbought)

\* C24: for a series shorter than the strategy's minimum lookback
\* (Supertrend: atr_period; MACD: max(macd_slow, rsi_period)), the empty
\* series included, generate_signals returns HOLD, Supertrend with
\* confidence 0 and MACD with all indicator fields null.
C24_ShortDataHolds ==
    /\ (supertrend.signal # "none" /\ supertrend.data.n < supertrend.atr_period)
       => /\ supertrend.signal = "HOLD"
          /\ Confidence(supertrend, supertrend.data, supertrend.signal) = Rat(0, 1)
    /\ (/\ macd.signal # "none"
        /\ macd.data.n < macd.macd_slow \/ macd.data.n < macd.rsi_period)
       => /\ macd.signal = "HOLD"
          /\ macd.fields = "null"

\* the empty series was given to the Supertrend instance, and a series
\* shorter than the lookback but with a rising histogram to the MACD one
C24_ShortSeriesGiven ==
    /\ supertrend.signal = "HOLD"
    /\ supertrend.data.n = 0
    /\ macd.signal = "HOLD"
    /\ macd.data.n > 0
    /\ macd.data.n < Lookback(macd)
    /\ macd.data.histogram > macd.data.prev_histogram

\* C25: in both calculate_supertrend functions the lower band does not
\* decrease from a bar to the next within an up-direction segment, and the
\* upper band does not increase within a down-direction segment.
C25_Ratchet ==
    bands.n >= 2
    => \A series \in {bands.indicator, bands.strategy} :
          /\ (series[1].direction = 1 /\ series[2].direction = 1)
             => series[2].lowerband >= series[1].lowerband
          /\ (series[1].direction = -1 /\ series[2].direction = -1)
             => series[2].upperband <= series[1].upperband

\* C26: an engine without a market-data client is never running and never has
\* a worker, whatever start() calls were made; an engine that has the
\* market-data client but no order-placement client, and is not running,
\* can be started: start() spawns the worker.
C26_StartNeedsDataOnly ==
    /\ ~data_client
          => (~running /\ trading_thread = NoThread /\ Threads = {})
    /\ (data_client /\ ~trading_client /\ ~running /\ Threads = {}
           /\ joining = NoThread)
          => ENABLED Start

\* C26 witness: a data-only engine was started and its worker is alive
C26_DegradedStarted ==
    /\ data_client /\ ~trading_client /\ ~has_ledger
    /\ running
    /\ trading_thread # NoThread
    /\ Alive(trading_thread)

\* C27: when a worker has evaluated an active strategy of a crypto symbol
\* and the evaluation raised nothing (the symbol's counter was not
\* incremented), the symbol's counter is 0 afterwards, whatever the signal
\* was and whether or not an order was placed.
C27_SuccessResets ==
    [][\A w \in Workers :
          (/\ Evaluating(w)
           /\ sj'[w] = sj[w] + 1
           /\ symbols[w][si[w]] \in CryptoSymbols
           /\ errs'[w][symbols[w][si[w]]] # errs[w][symbols[w][si[w]]] + 1)
             => errs'[w][symbols[w][si[w]]] = 0]_vars

\* The worker against a broker whose calls can fail: a live engine was
\* started with active strategies registered; get_signal raises nothing, and what
\* get_account, get_position, the market data, submit_order and the trade
\* row answer inside _execute_buy and _execute_sell is any of the answers
\* they can give.
InitCollaborators ==
    /\ Constructed("live")
    /\ supertrend = NoInstance
    /\ macd = NoMACD
    /\ bands = NoBars
    /\ Started(1)
    /\ \E reg \in {TwoSymbols, OneSymbol} :
          Stored(Toggled(Toggled(reg, 1, TRUE), 2, TRUE))
    /\ settings = DefaultSettings
    /\ env = [faults |-> FALSE, broker |-> TRUE, observe |-> TRUE,
              prices |-> {100}, accounts |-> {10000}]

NextCollaborators == \E w \in Workers : Worker(w)

SpecCollaborators == InitCollaborators /\ [][NextCollaborators]_vars

\* C28: when _execute_buy or _execute_sell, called by a worker for a signal
\* of a symbol, had its submit_order raise, the worker increments the
\* symbol's error counter.
C28_BrokerFailureCounted ==
    [][\A w \in Workers :
          (/\ Evaluating(w)
           /\ sj'[w] = sj[w] + 1
           /\ lastCall' # lastCall
           /\ lastCall'.symbol = symbols[w][si[w]]
           /\ lastCall'.orders # <<>>
           /\ lastCall'.orders[1].status = "raised")
             => errs'[w][symbols[w][si[w]]] = errs[w][symbols[w][si[w]]] + 1]_vars

\* C29: when a worker has processed a strategy of a symbol that is not the
\* last one of the symbol's list, whatever happened while it read the
\* active flag, evaluated or executed, the worker goes on with the next
\* strategy of the same symbol.
C29_RestOfSymbolEvaluated ==
    [][\A w \in Workers :
          (/\ pc[w] = "strat"
           /\ sj[w] < Len(Current(w))
           /\ <<pc[w], si[w], sj[w]>> # <<pc'[w], si'[w], sj'[w]>>)
             => (pc'[w] = "strat" /\ si'[w] = si[w] /\ sj'[w] = sj[w] + 1)]_vars

\* C30: a worker pausing after a loop-level exception has counted at least
\* one; its pause is not shorter than the pause after any smaller count,
\* never exceeds the long pause, and is the long pause from the fifth
\* consecutive exception on; a worker sleeping for the update interval, its
\* cycle having run to the end, has a count of 0. (The cycle that finds no
\* strategy sleeps its own 30 s and leaves the count alone.)
C30_GlobalBackoff ==
    \A w \in Workers :
        /\ pc[w] = "backoff"
              => LET k == consecutive_errors[w]
                 IN  /\ k >= 1
                     /\ \A j \in 1..k : Backoff(j) <= Backoff(k)
                     /\ Backoff(k) <= LongPause
                     /\ k >= BackoffThreshold => Backoff(k) = LongPause
        /\ pc[w] = "sleep" => consecutive_errors[w] = 0

\* C30 witness: a worker in the long pause after its fifth consecutive
\* loop-level exception
C30_LongPauseReached ==
    \E w \in Workers :
        /\ pc[w] = "backoff"
        /\ consecutive_errors[w] = BackoffThreshold
        /\ Backoff(consecutive_errors[w]) = LongPause

\* C31: with no start() after it, a stop() is followed by the end of every
\* worker: once running is false every worker eventually is not alive; a
\* worker that is at the head of its loop while running is false begins no
\* cycle, and a worker that has ended stays ended.
C31_StopEndsWorker ==
    /\ (~running) ~> (\A w \in Workers : ~Alive(w))
    /\ [][\A w \in Workers :
            /\ (~running /\ pc[w] = "head") => pc'[w] \in {"head", "done"}
            /\ pc[w] = "done" => pc'[w] = "done"]_vars

\* C31 witness: stop() was called while the worker was alive, has returned,
\* and the worker has left its loop
C31_WorkerExited ==
    /\ ~running
    /\ stopReturned
    /\ trading_thread # NoThread
    /\ pc[trading_thread] = "done"

\* C32: a buy sized with a risk per unit of 0 or less (stop_loss_percent is
\* 0, so the stop price is the price) submits no order and opens no
\* position.
C32_ZeroRiskRejected ==
    (lastCall.op = "buy" /\ lastCall.price * settings.stop_loss_percent <= 0)
        => (/\ lastCall.orders = <<>>
            /\ ~lastCall.wrote
            /\ lastCall.symbol \notin OpenPositions \/ lastCall.held)

\* C33: generate_signals yields BUY or SELL only with a confidence of at
\* least 0.5: a flip whose confidence is below that yields HOLD; and the
\* confidence of what it yields lies within [0, 1].
C33_LowConfidenceHolds ==
    LET confidence == Confidence(supertrend, supertrend.data, supertrend.signal)
    IN  /\ supertrend.signal \in {"BUY", "SELL"}
              => ~RLess(confidence, Rat(1, 2))
        /\ ~RLess(confidence, Rat(0, 1))
        /\ ~RLess(Rat(1, 1), confidence)

\* execute_strategy of a Supertrend instance, call after call: the data is
\* of any regime, an order is placed and tracked or the parameters are
\* checked. The instance is constructed with a multiplier and a
\* trends_required within their bounds.
InitOptimization ==
    /\ Constructed("none")
    /\ NotStarted
    /\ Stored(<<>>)
    /\ settings = DefaultSettings
    /\ env = [faults |-> FALSE, broker |-> FALSE, observe |-> FALSE,
              prices |-> {100}, accounts |-> {10000}]
    /\ macd = NoMACD
    /\ bands = NoBars
    /\ \E multiplier \in {TrendingMultiplier, NeutralMultiplier, MultiplierCap},
          trends_required \in {1, DefaultTrendsRequired, TrendsCap} :
          supertrend = [NoInstance EXCEPT
                          !.atr_period = DefaultAtrPeriod,
                          !.multiplier = multiplier,
                          !.trends_required = trends_required,
                          !.volume_threshold = Rat(3, 2)]

NextOptimization ==
    \/ \E regime \in Regimes : AdjustToRegime(regime)
    \/ \E side \in {"BUY", "SELL"}, pnl_percent \in PnlPercents :
          TrackTrade(side, pnl_percent)
    \/ RunCheckOptimization

SpecOptimization == InitOptimization /\ [][NextOptimization]_vars

\* C34: a run of _check_optimization raises the multiplier by 0.5 or leaves
\* it, raises trends_required by 1 or leaves it, and leaves both when fewer
\* than 5 trades are tracked; and whatever ran, the multiplier is at most
\* 5.0 and trends_required at most 5.
C34_SlowAdjustment ==
    [][/\ supertrend'.last = "check"
            => /\ supertrend'.multiplier - supertrend.multiplier
                     \in {0, MultiplierStep}
               /\ supertrend'.trends_required - supertrend.trends_required
                     \in {0, 1}
               /\ supertrend.performance_tracking.trades < MinTracked
                     => /\ supertrend'.multiplier = supertrend.multiplier
                        /\ supertrend'.trends_required
                              = supertrend.trends_required
       /\ supertrend'.multiplier <= MultiplierCap
       /\ supertrend'.trends_required <= TrendsCap]_vars

\* C34 witness: _check_optimization has run with at least 5 trades
\* tracked, and both parameters stand at their bounds
C34_BoundsReached ==
    /\ supertrend.last = "check"
    /\ supertrend.performance_tracking.trades >= MinTracked
    /\ supertrend.multiplier = MultiplierCap
    /\ supertrend.trends_required = TrendsCap

\* C35: a worker that goes to the market-data refresh does so with symbols
\* that each have a strategy not toggled off; with no such strategy in the
\* registry the cycle fetches nothing.
C35_RefreshOnlyActive ==
    [][\A w \in Workers :
          (pc[w] = "poll" /\ pc'[w] = "refresh")
             => \A i \in 1..Len(symbols'[w]) :
                   \E j \in 1..Len(ListOf(symbols'[w][i])) :
                       ListOf(symbols'[w][i])[j].is_active # "off"]_vars

C37_OneWorker == Cardinality(Threads) <= 1

C39_ReportedActiveEvaluated ==
    [][\A w \in Workers :
          (/\ pc[w] = "strat"
           /\ sj[w] <= Len(Current(w))
           /\ ReportedActive(Current(w)[sj[w]])
           /\ <<pc[w], si[w], sj[w]>> # <<pc'[w], si'[w], sj'[w]>>)
             => /\ pc'[w] = "strat" /\ si'[w] = si[w] /\ sj'[w] = sj[w] + 1
                /\ Current(w)[sj[w]].is_active = "on"]_vars

\* C40: a live buy whose market order came back with a status other than
\* 'filled' records no trade and returns nothing the loop takes for a
\* success.
C40_OnlyFilledCounts ==
    (/\ lastCall.op = "buy"
     /\ lastCall.orders # <<>>
     /\ lastCall.orders[1].status # "filled")
        => (lastCall.recorded = "none" /\ ~lastCall.result)

====
